---- MODULE Spec2Model ----
(***************************************************************************)
(* A model of PlaylistTransformer (src/playlist-transformer.js): the remap *)
(* rule store, the line-by-line M3U scan, the identity resolver / merger   *)
(* and the aggregation of several playlists by loadAndTransform.           *)
(*                                                                         *)
(* Text is a sequence of tokens.  A token is an atomic piece of text; the  *)
(* tokens the code looks inside are kept apart: the letters whose case     *)
(* toLowerCase changes, the blank that trim removes, '=' that split cuts   *)
(* at, and ',' that join inserts.                                          *)
(***************************************************************************)
EXTENDS Naturals, Sequences, FiniteSets

\* ------------------------------------------------------------------ bounds

\* Lines handed to the transformer over its lifetime, all playlists and runs.
MaxTotalLines == 5
\* Playlists one run of loadAndTransform is given.
MaxDocs == 2
\* Calls of loadAndTransform on the one transformer instance.
MaxRuns == 2

RunIds == 1..MaxRuns

\* ------------------------------------------------------------ text helpers

None == << >>
Some(x) == << x >>

Min(a, b) == IF a < b THEN a ELSE b

\* String.prototype.toLowerCase, token by token.
LowerTok(c) ==
    CASE c = "A" -> "a"
      [] c = "B" -> "b"
      [] c = "C" -> "c"
      [] OTHER -> c

ToLowerCase(s) == [j \in 1..Len(s) |-> LowerTok(s[j])]

IsBlank(c) == c = " "

RECURSIVE TrimLeft(_)
TrimLeft(s) ==
    IF s # << >> /\ IsBlank(Head(s)) THEN TrimLeft(Tail(s)) ELSE s

RECURSIVE TrimRight(_)
TrimRight(s) ==
    IF s # << >> /\ IsBlank(s[Len(s)])
    THEN TrimRight(SubSeq(s, 1, Len(s) - 1))
    ELSE s

\* String.prototype.trim.
Trim(s) == TrimRight(TrimLeft(s))

\* The first element of s.split('=').
RECURSIVE BeforeEq(_)
BeforeEq(s) ==
    IF s = << >> \/ Head(s) = "=" THEN << >>
    ELSE << Head(s) >> \o BeforeEq(Tail(s))

\* Array.prototype.join(',').
RECURSIVE Join(_)
Join(ss) ==
    IF ss = << >> THEN << >>
    ELSE IF Len(ss) = 1 THEN ss[1]
    ELSE ss[1] \o << "," >> \o Join(Tail(ss))

\* A JavaScript object / Map used as a dictionary.
EmptyMap == [k \in {} |-> k]
Has(m, k) == k \in DOMAIN m
Put(m, k, v) == [x \in (DOMAIN m) \cup {k} |-> IF x = k THEN v ELSE m[x]]

\* Set.prototype.add on a Set kept in insertion order.
SetAdd(s, x) == IF \E j \in 1..Len(s) : s[j] = x THEN s ELSE Append(s, x)

RECURSIVE SetAddAll(_, _)
SetAddAll(s, xs) ==
    IF xs = << >> THEN s ELSE SetAddAll(SetAdd(s, Head(xs)), Tail(xs))

\* ------------------------------------------------------------------- lines

\* A playlist line: its class (what the startsWith tests of parseM3U and
\* parseVLCOpts see after the leading blanks), whether it has leading blanks,
\* its name="value" pairs in textual order, and its remaining text (the part
\* after the last comma of a metadata line, the URL of a URL line).
Line(cls, indent, attrs, text) ==
    [cls |-> cls, indent |-> indent, attrs |-> attrs, text |-> text]

ExtInf(attrs, name) == Line("EXTINF", FALSE, attrs, name)
VlcOpt(indent, key, val) == Line("EXTVLCOPT", indent, << <<key, val>> >>, << >>)
UrlLine(u) == Line("URL", FALSE, << >>, u)
Other(attrs) == Line("OTHER", FALSE, attrs, << >>)

AltriCanali == << "Altri canali" >>

E1 == ExtInf(<< <<"tvg-id", <<"A">> >>, <<"tvg-name", <<"n1">> >>,
               <<"tvg-logo", <<"l1">> >>, <<"group-title", <<"News">> >> >>,
             << " ", "x" >>)
E2 == ExtInf(<< >>, << " ", "B", " " >>)
E3 == ExtInf(<< <<"tvg-id", <<"b">> >>, <<"group-title", <<"Sport">> >> >>,
             << "y" >>)
E4 == ExtInf(<< <<"tvg-id", <<"c">> >>, <<"tvg-logo", <<"l4">> >> >>, << "z" >>)
U1 == UrlLine(<< "http://u1" >>)
U2 == UrlLine(<< "http://u2" >>)
O1 == VlcOpt(FALSE, "http-user-agent", << "ua1" >>)
O2 == VlcOpt(FALSE, "http-referrer", << "ref" >>)
O3 == VlcOpt(TRUE, "http-user-agent", << "ua3" >>)
E5 == ExtInf(<< <<"tvg-id", <<"d">> >>,
               <<"tvg-logo", <<"http://l?w", "=", "5">> >> >>, << "v" >>)
O4 == VlcOpt(FALSE, "http-user-agent", << "ua4" >>)
H1 == Other(<< <<"url-tvg", <<"http://g1">> >> >>)
H2 == Other(<< <<"url-tvg", <<"http://g2">> >> >>)
Blank == Other(<< >>)

\* ----------------------------------------------------------- remap file

ENOENT == "ENOENT"
EIO == "EIO"

\* What fs.promises.readFile(remappingPath) can find: no file (ENOENT), an
\* unreadable file, or a text, here already cut into lines of tokens.
FileAbsent == [err |-> ENOENT, text |-> << >>]
FileUnreadable == [err |-> EIO, text |-> << >>]
FileText(lines) == [err |-> "", text |-> lines]

RulesAB == FileText(<< <<" ", "A", "=", "B", " ">> >>)
RulesChain == FileText(<< <<"#", "a", "=", "c">>, <<"a", "=", "b">>, <<"c">>,
                          <<"b", "=", "c">>, << >>, <<"c", "=">> >>)
RulesBC == FileText(<< <<"b", "=", "C">> >>)
RulesOdd == FileText(<< <<"a", "=", "b", "=", "c">>, <<"C", " ", "=", " ", "D">> >>)

\* The worlds a transformer can live in: the lines its playlists are made of,
\* the states its remap file can be in, and whether the caller gives every
\* run the sources of the run before (a periodic refresh of unchanged
\* playlists).  One is about identities, remap rules and merging, one about
\* playlist headers and genres, one about option lines and URL lines.
\* trace says whether the history keeps the lines of the playlists.
Worlds ==
    { [lines |-> {E1, E2, E3, U1},
       files |-> {FileAbsent, RulesAB, RulesChain},
       rerun |-> FALSE, trace |-> FALSE],
      [lines |-> {H1, H2, E3, U1},
       files |-> {FileUnreadable},
       rerun |-> FALSE, trace |-> FALSE],
      [lines |-> {E1, O1, O3, U1, U2},
       files |-> {FileAbsent},
       rerun |-> FALSE, trace |-> FALSE] }

\* A world of hand-edited inputs: a logo URL with a query string, a rule
\* line with two '='.
EdgeWorlds ==
    { [lines |-> {H1, E5, U1},
       files |-> {FileAbsent, RulesOdd},
       rerun |-> FALSE, trace |-> FALSE] }

\* A world of playlists with option lines: two user agents, an option the
\* parser does not know, an indented one.
OptWorlds ==
    { [lines |-> {H1, E3, O1, O2, O3, O4, U1},
       files |-> {FileAbsent, RulesBC},
       rerun |-> FALSE, trace |-> FALSE] }

\* The world of a caller whose calls overlap.
OverlapWorlds ==
    { [lines |-> {H1, E3, U1},
       files |-> {FileAbsent, RulesBC},
       rerun |-> FALSE, trace |-> TRUE] }

\* The world of a caller that refreshes unchanged playlists.
RerunWorlds ==
    { [lines |-> {H1, E3, U1},
       files |-> {FileAbsent, RulesBC},
       rerun |-> TRUE, trace |-> TRUE] }

\* String.prototype.split('=').
RECURSIVE SplitEq(_)
SplitEq(s) ==
    IF \A j \in 1..Len(s) : s[j] # "=" THEN << s >>
    ELSE << BeforeEq(s) >> \o SplitEq(SubSeq(s, Len(BeforeEq(s)) + 2, Len(s)))

\* The body of the forEach of loadRemappingRules for one line of the file.
LoadRuleLine(rules, rawLine) ==
    LET line == Trim(rawLine)
        parts == SplitEq(line)
        m3uId == ToLowerCase(Trim(parts[1]))
        epgId == IF Len(parts) >= 2 THEN ToLowerCase(Trim(parts[2])) ELSE << >>
    IN IF line = << >> \/ Head(line) = "#" THEN rules
       ELSE IF m3uId = << >> \/ epgId = << >> THEN rules
       ELSE Put(rules, m3uId, epgId)

RECURSIVE LoadRuleLines(_, _)
LoadRuleLines(rules, text) ==
    IF text = << >> THEN rules
    ELSE LoadRuleLines(LoadRuleLine(rules, Head(text)), Tail(text))

\* loadRemappingRules: the rules of the file are set into this.remappingRules;
\* a read error leaves the map as it is.
LoadRemappingRules(rules, file) ==
    IF file.err # "" THEN rules ELSE LoadRuleLines(rules, file.text)

\* -------------------------------------------------------------- parseM3U

\* key.replace('tvg-', '') for the attribute names of the playlists.
CleanKey(key) ==
    CASE key = "tvg-id" -> "id"
      [] key = "tvg-name" -> "name"
      [] key = "tvg-logo" -> "logo"
      [] OTHER -> key

\* The forEach over tvgMatches: every name="value" pair with a non-empty
\* value, [key, value] = match.split('='), quotes removed.
RECURSIVE TvgData(_, _)
TvgData(tvg, attrs) ==
    IF attrs = << >> THEN tvg
    ELSE LET key == Head(attrs)[1]
             val == Head(attrs)[2]
         IN TvgData(IF val = << >> THEN tvg
                    ELSE Put(tvg, CleanKey(key), BeforeEq(val)),
                    Tail(attrs))

\* metadata.match(/group-title="([^"]+)"/): the first such pair.
RECURSIVE GroupMatch(_)
GroupMatch(attrs) ==
    IF attrs = << >> THEN None
    ELSE IF Head(attrs)[1] = "group-title" /\ Head(attrs)[2] # << >>
         THEN Some(Head(attrs)[2])
         ELSE GroupMatch(Tail(attrs))

\* lines[0].match(/url-tvg="([^"]+)"/) when lines[0] includes 'url-tvg='.
RECURSIVE UrlTvg(_)
UrlTvg(attrs) ==
    IF attrs = << >> THEN None
    ELSE IF Head(attrs)[1] = "url-tvg" /\ Head(attrs)[2] # << >>
         THEN Some(Head(attrs)[2])
         ELSE UrlTvg(Tail(attrs))

\* lines[i].startsWith('#EXTVLCOPT:'), on the untrimmed line.
StartsWithVlcOpt(line) == line.cls = "EXTVLCOPT" /\ ~line.indent

\* A lookahead in which the first user agent stays.
RECURSIVE ParseVLCOptsFirstWins(_, _, _)
ParseVLCOptsFirstWins(lines, i, headers) ==
    IF i <= Len(lines) /\ StartsWithVlcOpt(lines[i])
    THEN LET opt == lines[i].attrs[1]
         IN ParseVLCOptsFirstWins(lines, i + 1,
                IF opt[1] = "http-user-agent" /\ ~Has(headers, "User-Agent")
                THEN Put(headers, "User-Agent", opt[2])
                ELSE headers)
    ELSE [headers |-> headers, nextIndex |-> i]

\* parseVLCOpts(lines, currentIndex), indices from 1.
RECURSIVE ParseVLCOptsFrom(_, _, _)
ParseVLCOptsFrom(lines, i, headers) ==
    IF i <= Len(lines) /\ StartsWithVlcOpt(lines[i])
    THEN LET opt == lines[i].attrs[1]
         IN ParseVLCOptsFrom(lines, i + 1,
                IF opt[1] = "http-user-agent"
                THEN Put(headers, "User-Agent", opt[2])
                ELSE headers)
    ELSE [headers |-> headers, nextIndex |-> i]

ParseVLCOpts(lines, currentIndex) ==
    ParseVLCOptsFrom(lines, currentIndex, EmptyMap)

\* The currentChannel object built from a metadata line and its headers.
CurrentChannel(line, headers) ==
    LET groupMatch == GroupMatch(line.attrs)
    IN [name |-> Trim(line.text),
        group |-> IF groupMatch # None THEN groupMatch[1] ELSE AltriCanali,
        tvg |-> TvgData(EmptyMap, line.attrs),
        headers |-> headers]

\* ------------------------------------------- transformChannelToStremio

IdPrefix == << "tv|" >>

\* channel.tvg?.x || fallback.
TvgOr(channel, field, fallback) ==
    IF Has(channel.tvg, field) /\ channel.tvg[field] # << >>
    THEN channel.tvg[field]
    ELSE fallback

\* (channel.tvg?.id || channel.name.trim()).toLowerCase()
SourceId(channel) == ToLowerCase(TvgOr(channel, "id", Trim(channel.name)))

\* A resolver that follows the rules as long as one applies.
RECURSIVE Chase(_, _, _)
Chase(id, rules, fuel) ==
    IF fuel > 0 /\ Has(rules, id) THEN Chase(ToLowerCase(rules[id]), rules, fuel - 1)
    ELSE id

ChannelIdChased(channel, rules) ==
    Chase(ToLowerCase(TvgOr(channel, "id", Trim(channel.name))), rules, 3)

\* The identity after the remap rules (lines 113-130).
ChannelId(channel, rules) ==
    IF Has(rules, SourceId(channel))
    THEN ToLowerCase(rules[SourceId(channel)])
    ELSE SourceId(channel)

\* channels.find(ch => ch.streamInfo.tvg.id.toLowerCase() === channelId):
\* the position of the first such channel, 0 when there is none.
FindChannel(channels, hp, channelId) ==
    LET hits == {j \in 1..Len(channels) :
                    ToLowerCase(hp[channels[j]].tvg.id) = channelId}
    IN IF hits = {} THEN 0
       ELSE CHOOSE j \in hits : \A k \in hits : j <= k

\* The stream pushed for an entry.
StreamOf(channel) == [url |-> channel.url, name |-> channel.name]

\* A channel built with no stream yet.
NewChannelNoStream(channel, channelId) ==
    LET name == TvgOr(channel, "name", channel.name)
        group == IF channel.group # << >> THEN channel.group ELSE AltriCanali
    IN [id |-> IdPrefix \o channelId,
        name |-> name,
        genre |-> << group >>,
        logo |-> IF Has(channel.tvg, "logo") THEN Some(channel.tvg.logo) ELSE None,
        urls |-> << >>,
        headers |-> channel.headers,
        tvg |-> Put(Put(channel.tvg, "id", channelId), "name", name)]

\* The object built at lines 147-176.
NewChannel(channel, channelId) ==
    LET name == TvgOr(channel, "name", channel.name)
        group == IF channel.group # << >> THEN channel.group ELSE AltriCanali
    IN [id |-> IdPrefix \o channelId,
        name |-> name,
        genre |-> << group >>,
        logo |-> IF Has(channel.tvg, "logo") THEN Some(channel.tvg.logo) ELSE None,
        urls |-> << StreamOf(channel) >>,
        headers |-> channel.headers,
        tvg |-> Put(Put(channel.tvg, "id", channelId), "name", name)]

\* A merge that replaces the streams of the channel by the new one.
TransformMergeOverwrites(channel, rules, data, hp) ==
    LET channelId == ChannelId(channel, rules)
        existing == FindChannel(data.channels, hp, channelId)
    IN IF existing # 0
       THEN [data |-> data,
             hp |-> [hp EXCEPT ![data.channels[existing]].urls = << StreamOf(channel) >>],
             ret |-> 0,
             conflict |-> Has(rules, SourceId(channel))]
       ELSE [data |-> [genres |-> SetAdd(data.genres,
                                         NewChannel(channel, channelId).genre[1]),
                       channels |-> Append(data.channels, Len(hp) + 1)],
             hp |-> Append(hp, NewChannel(channel, channelId)),
             ret |-> Len(hp) + 1,
             conflict |-> FALSE]

\* A merge in which the last entry of an identity decides the name and the
\* genre of the channel.
TransformMergeLastWins(channel, rules, data, hp) ==
    LET channelId == ChannelId(channel, rules)
        existing == FindChannel(data.channels, hp, channelId)
        obj == NewChannel(channel, channelId)
    IN IF existing # 0
       THEN [data |-> [data EXCEPT !.genres = SetAdd(@, obj.genre[1])],
             hp |-> [hp EXCEPT ![data.channels[existing]] =
                        [@ EXCEPT !.urls = Append(@, StreamOf(channel)),
                                  !.name = obj.name,
                                  !.genre = obj.genre]],
             ret |-> 0,
             conflict |-> Has(rules, SourceId(channel))]
       ELSE [data |-> [genres |-> SetAdd(data.genres, obj.genre[1]),
                       channels |-> Append(data.channels, Len(hp) + 1)],
             hp |-> Append(hp, obj),
             ret |-> Len(hp) + 1,
             conflict |-> FALSE]

\* transformChannelToStremio(channel) on the transformer's state: data is
\* this.stremioData, hp the channel objects by reference.  ret is the
\* reference returned (0 for null), conflict whether the warning was logged.
TransformChannelToStremio(channel, rules, data, hp) ==
    LET channelId == ChannelId(channel, rules)
        isConflict == Has(rules, SourceId(channel))
                      /\ FindChannel(data.channels, hp, channelId) # 0
        existing == FindChannel(data.channels, hp, channelId)
    IN IF existing # 0
       THEN LET ref == data.channels[existing]
            IN [data |-> data,
                hp |-> [hp EXCEPT ![ref].urls = Append(@, StreamOf(channel))],
                ret |-> 0,
                conflict |-> isConflict]
       ELSE LET obj == NewChannel(channel, channelId)
                ref == Len(hp) + 1
            IN [data |-> [genres |-> SetAdd(data.genres, obj.genre[1]),
                          channels |-> Append(data.channels, ref)],
                hp |-> Append(hp, obj),
                ret |-> ref,
                conflict |-> isConflict]

\* ------------------------------------------------------------ the state

VARIABLES
    world,           \* the lines of the playlists, the states of the remap file
    budget,          \* lines not yet handed out (MaxTotalLines at first)
    remapFile,       \* link.epg.remapping as it is on disk now
    remappingRules,  \* this.remappingRules
    stremioData,     \* this.stremioData: genres (insertion order), channels
    heap,            \* the channel objects, by reference (position)
    pc,              \* where each call of loadAndTransform stands
    loc,             \* the locals of each call of loadAndTransform
    prs,             \* the locals of the parseM3U call of each run
    epg,             \* EPGManager.initializeEPG of each run
    log              \* history: what each run read and handed on

vars == << world, budget, remapFile, remappingRules, stremioData, heap,
           pc, loc, prs, epg, log >>

NoLocals ==
    [n |-> 0, docIdx |-> 0, allChannels |-> << >>, allGenres |-> << >>,
     allEpgUrls |-> << >>, ret |-> None, error |-> ""]

NoParse ==
    [currentChannel |-> None, ahead |-> << >>, ended |-> FALSE,
     epgUrl |-> None, result |-> None]

\* History kept for the properties; no action reads it.
\*   file      the remap file as it was when the run loaded its rules
\*   fetched   how many playlists the run fetched and began to parse
\*   meta      the last metadata line passed in the playlist with no URL line
\*             passed after it
\*   between   the lines passed since that metadata line
\*   expect    per URL line passed while meta was set: the pair (the name
\*             and the name="value" pairs of the metadata line, the lines
\*             between the two, the URL), in order
\*   dropped   metadata lines that were followed by another metadata line or
\*             by the end of the playlist before any URL line
\*   ignored   URL lines passed while meta was not set
\*   emitted   the entries handed to transformChannelToStremio, in order
\*   conflicts whether each of them logged the conflict warning
\*   heads     the url-tvg="..." pairs of the first line of each playlist of
\*             the run so far
\*   docs      the playlists of the run so far, each the lines handed out
\*             (kept in the worlds that trace them)
\*   out       the catalog as it was when the run returned it, by value
NoLog ==
    [file |-> None, fetched |-> 0, meta |-> None, between |-> << >>,
     expect |-> << >>,
     dropped |-> 0, ignored |-> 0, emitted |-> << >>, conflicts |-> << >>,
     heads |-> << >>, docs |-> << >>, out |-> None]

\* pc[r]: "idle" (not called yet), the awaits of loadAndTransform
\* ("loadRules", "readExternal", "fetch", "awaitEPG"), inside parseM3U
\* ("scan"), back from it ("fold"), returned ("done"), thrown ("failed"),
\* and "over" once the caller has gone on to a later run.
Active(r) == pc[r] \notin {"idle", "done", "failed", "over"}

\* A parseM3U that awaits between two lines.
ScheduledAnyTime(r) == TRUE

\* The event loop can run a step of call r: parseM3U has no await (lines
\* 182-253), so no other call is inside it.
Scheduled(r) == \A q \in RunIds \ {r} : pc[q] # "scan"

Start(worlds) ==
    /\ world \in worlds
    /\ budget = MaxTotalLines
    /\ remapFile \in world.files
    /\ remappingRules = EmptyMap
    /\ stremioData = [genres |-> << >>, channels |-> << >>]
    /\ heap = << >>
    /\ pc = [r \in RunIds |-> "idle"]
    /\ loc = [r \in RunIds |-> NoLocals]
    /\ prs = [r \in RunIds |-> NoParse]
    /\ epg = [r \in RunIds |-> "none"]
    /\ log = [r \in RunIds |-> NoLog]

Init == Start(Worlds)

\* ------------------------------------------------------------ the sources

\* Run r is given the sources of the run before it, which returned.
Again(r) == world.rerun /\ r > 1 /\ log[r - 1].out # None

\* The playlists run r is given, when it is given those of the run before.
Given(r) == log[r - 1].docs

\* The lines of the playlist run r is parsing that it has not been handed.
Rest(r) ==
    LET d == Len(log[r].docs)
    IN SubSeq(Given(r)[d], Len(log[r].docs[d]) + 1, Len(Given(r)[d]))

\* The lines a lookahead over rest looks at: the option lines it consumes and
\* the line it stops at, if there is one.
RECURSIVE Window(_)
Window(rest) ==
    IF rest = << >> THEN << >>
    ELSE IF StartsWithVlcOpt(Head(rest)) THEN << Head(rest) >> \o Window(Tail(rest))
    ELSE << Head(rest) >>

\* The history of lines handed out for the playlist being parsed.
LogLines(g, lines) ==
    IF world.trace THEN [g EXCEPT !.docs[Len(g.docs)] = @ \o lines] ELSE g

\* The history of a playlist begun with the line first.
LogDoc(g, first) ==
    [g EXCEPT !.meta = None, !.between = << >>, !.fetched = @ + 1,
              !.heads = Append(@, SelectSeq(first.attrs,
                                            LAMBDA a : a[1] = "url-tvg")),
              !.docs = IF world.trace THEN Append(@, << first >>) ELSE @]

\* The catalog c with its channel objects as they are in hp.
CatalogValue(c, hp) ==
    [genres |-> c.genres,
     channels |-> [j \in 1..Len(c.channels) |-> hp[c.channels[j]]],
     epgUrl |-> c.epgUrl]

\* ------------------------------------------------------- loadAndTransform

\* The operator edits link.epg.remapping between two runs.
WriteRemapFile ==
    /\ \A r \in RunIds : ~Active(r)
    /\ \E r \in RunIds : pc[r] # "idle"
    /\ \E r \in RunIds : pc[r] = "idle"
    /\ \E f \in world.files \ {remapFile} : remapFile' = f
    /\ UNCHANGED << world, budget, remappingRules, stremioData, heap,
                    pc, loc, prs, epg, log >>

\* A caller that awaits each run before the next and keeps nothing of the
\* runs before: loadAndTransform is entered with fresh locals and stops at
\* its first await (the read of the remap file).
StartRun(r) ==
    /\ pc[r] = "idle"
    /\ Scheduled(r)
    /\ \A q \in RunIds : q < r => pc[q] \in {"done", "failed", "over"}
    /\ pc' = [q \in RunIds |-> IF q = r THEN "loadRules"
                               ELSE IF q < r THEN "over" ELSE pc[q]]
    /\ loc' = [q \in RunIds |-> NoLocals]
    /\ prs' = [q \in RunIds |-> NoParse]
    /\ epg' = [q \in RunIds |-> "none"]
    /\ log' = [q \in RunIds |->
                  IF world.rerun /\ q = r - 1 THEN log[q] ELSE NoLog]
    /\ UNCHANGED << world, budget, remapFile, remappingRules, stremioData,
                    heap >>

\* The read of the remap file settles; loadRemappingRules runs to its end and
\* loadAndTransform goes on to await readExternalFile.
LoadRules(r) ==
    /\ pc[r] = "loadRules"
    /\ Scheduled(r)
    /\ remappingRules' = LoadRemappingRules(remappingRules, remapFile)
    /\ log' = [log EXCEPT ![r].file = Some(remapFile)]
    /\ pc' = [pc EXCEPT ![r] = "readExternal"]
    /\ UNCHANGED << world, budget, remapFile, stremioData, heap, loc, prs,
                    epg >>

\* Lines 282-292 on the locals l: the joined guide URL, then either the await
\* of EPGManager.initializeEPG or the return of the catalog.
CombinedEpgUrl(allEpgUrls) ==
    IF Len(allEpgUrls) > 0 THEN Some(Join(allEpgUrls)) ELSE None

Catalog(l) ==
    [genres |-> l.allGenres, channels |-> l.allChannels,
     epgUrl |-> CombinedEpgUrl(l.allEpgUrls)]

AwaitsEpg(l) == CombinedEpgUrl(l.allEpgUrls) # None

Finish(r, l) ==
    IF AwaitsEpg(l)
    THEN /\ pc' = [pc EXCEPT ![r] = "awaitEPG"]
         /\ epg' = [epg EXCEPT ![r] = "pending"]
         /\ loc' = [loc EXCEPT ![r] = l]
         /\ log' = log
    ELSE /\ pc' = [pc EXCEPT ![r] = "done"]
         /\ epg' = epg
         /\ loc' = [loc EXCEPT ![r] = [l EXCEPT !.ret = Some(Catalog(l))]]
         /\ log' = [log EXCEPT ![r].out = Some(CatalogValue(Catalog(l), heap))]

\* readExternalFile returns the list of playlist locations: one for a direct
\* playlist, the non-blank lines of a list file (none when it has none).
ReadExternalOk(r) ==
    /\ pc[r] = "readExternal"
    /\ Scheduled(r)
    /\ \E n \in (IF Again(r) THEN {Len(Given(r))} ELSE 0..MaxDocs) :
          IF n = 0
          THEN Finish(r, [loc[r] EXCEPT !.n = 0])
          ELSE /\ pc' = [pc EXCEPT ![r] = "fetch"]
               /\ loc' = [loc EXCEPT ![r].n = n]
               /\ epg' = epg
               /\ log' = log
    /\ UNCHANGED << world, budget, remapFile, remappingRules, stremioData,
                    heap, prs >>

\* readExternalFile throws (axios and the wget/curl fallback both failed).
ReadExternalFail(r) ==
    /\ pc[r] = "readExternal"
    /\ Scheduled(r)
    /\ pc' = [pc EXCEPT ![r] = "failed"]
    /\ loc' = [loc EXCEPT ![r].error = "source"]
    /\ UNCHANGED << world, budget, remapFile, remappingRules, stremioData,
                    heap, prs, epg, log >>

\* A loop that goes on to the next playlist when one cannot be fetched.
FetchFailSkips(r) ==
    /\ pc[r] = "fetch"
    /\ Scheduled(r)
    /\ LET l == [loc[r] EXCEPT !.docIdx = @ + 1]
       IN IF l.docIdx < l.n
          THEN /\ pc' = pc
               /\ loc' = [loc EXCEPT ![r] = l]
               /\ epg' = epg
               /\ log' = log
          ELSE Finish(r, l)
    /\ UNCHANGED << world, budget, remapFile, remappingRules, stremioData,
                    heap, prs >>

\* axios.get(playlistUrl) rejects: the catch block rethrows.
FetchFail(r) ==
    /\ pc[r] = "fetch"
    /\ Scheduled(r)
    /\ pc' = [pc EXCEPT ![r] = "failed"]
    /\ loc' = [loc EXCEPT ![r].error = "fetch"]
    /\ UNCHANGED << world, budget, remapFile, remappingRules, stremioData,
                    heap, prs, epg, log >>

\* --------------------------------------------------------------- parseM3U
\*
\* The scan reads a playlist strictly left to right, so the model hands the
\* playlist out line by line as the scan reaches it: prs[r].ahead holds the
\* line parseVLCOpts looked at without consuming it, prs[r].ended says that
\* the lookahead ran into the end of the playlist.

\* The lines parseVLCOpts would consume.
OptLines == {l \in world.lines : StartsWithVlcOpt(l)}

\* What can follow a metadata line when at most k lines are left to hand out:
\* option lines, then a line that is none, or the end of the playlist.
Lookaheads(k) ==
    LET runs(m) == [1..m -> OptLines]
    IN UNION { runs(m) : m \in 0..k }
       \cup UNION { { o \o << t >> : o \in runs(m - 1), t \in world.lines \ OptLines }
                    : m \in 1..k }

\* A parseM3U that goes on with the accumulator as the last playlist left it.
ParseStartKeeps(data) == [data EXCEPT !.genres = SetAdd(@, AltriCanali)]

\* this.stremioData after lines 187-190.
ParseStart(data) == [genres |-> << AltriCanali >>, channels |-> << >>]

\* axios.get(playlistUrl) resolves and parseM3U is entered (lines 184-199):
\* the accumulator is reset, the sentinel genre added and the guide URL of
\* the first line read.
FetchOk(r) ==
    /\ pc[r] = "fetch"
    /\ Scheduled(r)
    /\ Again(r) \/ budget > 0
    /\ \E first \in (IF Again(r) THEN {Given(r)[loc[r].docIdx + 1][1]}
                      ELSE world.lines) :
          /\ prs' = [prs EXCEPT ![r] =
                       [NoParse EXCEPT !.ahead = << first >>,
                                       !.epgUrl = UrlTvg(first.attrs)]]
          /\ log' = [log EXCEPT ![r] = LogDoc(@, first)]
    /\ budget' = IF Again(r) THEN budget ELSE budget - 1
    /\ stremioData' = ParseStart(stremioData)
    /\ pc' = [pc EXCEPT ![r] = "scan"]
    /\ UNCHANGED << world, remapFile, remappingRules, heap, loc, epg >>

\* A scan that forgets the `- 1`.
ResumeAtSkips(nextIndex) == nextIndex + 1

\* `i = nextIndex - 1` followed by the loop's `i++`: where the scan resumes.
ResumeAt(nextIndex) == (nextIndex - 1) + 1

\* The branch of a metadata line (lines 204-229); after holds the lines that
\* follow it.  The scan state after the branch.
ScanExtInf(p, line, after) ==
    LET opts == ParseVLCOpts(after, 1)
    IN [p EXCEPT !.currentChannel = Some(CurrentChannel(line, opts.headers)),
                 !.ahead = SubSeq(after, ResumeAt(opts.nextIndex), Len(after)),
                 !.ended = (opts.nextIndex = Len(after) + 1)]

\* The branch of a URL line (lines 230-239): the scan state, the accumulator
\* and the channel objects after it, the entry handed on (if any) and
\* whether the conflict warning was logged.
ScanUrl(p, line, rules, data, hp) ==
    IF p.currentChannel = None
    THEN [p |-> p, data |-> data, hp |-> hp, entry |-> None, conflict |-> FALSE]
    ELSE LET c == p.currentChannel[1]
             channel == [name |-> c.name, group |-> c.group, tvg |-> c.tvg,
                         headers |-> c.headers, url |-> line.text]
             t == TransformChannelToStremio(channel, rules, data, hp)
         IN [p |-> [p EXCEPT !.currentChannel = None],
             data |-> IF t.ret # 0
                      THEN [t.data EXCEPT !.channels = Append(@, t.ret)]
                      ELSE t.data,
             hp |-> t.hp,
             entry |-> Some(channel),
             conflict |-> t.conflict]

\* The history of the lines the scan has passed, in playlist order.
RECURSIVE LogPassed(_, _, _)
LogPassed(g, doc, lines) ==
    IF lines = << >> THEN g
    ELSE LET line == Head(lines)
             h == CASE line.cls = "EXTINF" ->
                         [g EXCEPT !.meta = Some(line),
                                   !.between = << >>,
                                   !.dropped = IF g.meta # None THEN @ + 1 ELSE @]
                    [] line.cls = "URL" /\ g.meta # None ->
                         [g EXCEPT !.meta = None,
                                   !.between = << >>,
                                   !.expect = Append(@,
                                       [doc |-> doc,
                                        name |-> Trim(g.meta[1].text),
                                        attrs |-> g.meta[1].attrs,
                                        between |-> g.between,
                                        url |-> line.text])]
                    [] line.cls = "URL" /\ g.meta = None ->
                         [g EXCEPT !.ignored = @ + 1]
                    [] g.meta # None ->
                         [g EXCEPT !.between = Append(@, line)]
                    [] OTHER -> g
         IN LogPassed(h, doc, Tail(lines))

\* The history of an entry handed to transformChannelToStremio.
LogEntry(g, doc, s) ==
    IF s.entry = None THEN g
    ELSE [g EXCEPT !.emitted = Append(@, [doc |-> doc, channel |-> s.entry[1]]),
                   !.conflicts = Append(@, s.conflict)]

\* One turn of the for loop of parseM3U on the line the scan stands at.
ScanLine(r) ==
    /\ pc[r] = "scan"
    /\ Scheduled(r)
    /\ LET p == prs[r]
           fresh == p.ahead = << >>
           again == Again(r)
           left == IF fresh /\ ~again THEN budget - 1 ELSE budget
           rest == IF ~again THEN << >> ELSE IF fresh THEN Tail(Rest(r)) ELSE Rest(r)
           doc == loc[r].docIdx + 1
       IN /\ fresh => IF again THEN Rest(r) # << >> ELSE ~p.ended /\ budget > 0
          /\ \E line \in (IF ~fresh THEN {Head(p.ahead)}
                           ELSE IF again THEN {Head(Rest(r))}
                           ELSE world.lines) :
                LET q == [p EXCEPT !.ahead = << >>]
                    g == IF fresh THEN LogLines(log[r], << line >>) ELSE log[r]
                IN CASE line.cls = "EXTINF" ->
                          \E after \in (IF again THEN {Window(rest)}
                                        ELSE Lookaheads(left)) :
                             LET q2 == ScanExtInf(q, line, after)
                                 passed == SubSeq(after, 1, Len(after) - Len(q2.ahead))
                             IN /\ prs' = [prs EXCEPT ![r] = q2]
                                /\ budget' = IF again THEN budget ELSE left - Len(after)
                                /\ log' = [log EXCEPT ![r] =
                                      LogPassed(LogLines(g, after), doc,
                                                << line >> \o passed)]
                                /\ UNCHANGED << stremioData, heap >>
                     [] line.cls = "URL" ->
                          LET s == ScanUrl(q, line, remappingRules, stremioData, heap)
                          IN /\ prs' = [prs EXCEPT ![r] = s.p]
                             /\ stremioData' = s.data
                             /\ heap' = s.hp
                             /\ budget' = left
                             /\ log' = [log EXCEPT ![r] =
                                   LogEntry(LogPassed(g, doc, << line >>), doc, s)]
                     [] OTHER ->
                          /\ prs' = [prs EXCEPT ![r] = q]
                          /\ budget' = left
                          /\ log' = [log EXCEPT ![r] = LogPassed(g, doc, << line >>)]
                          /\ UNCHANGED << stremioData, heap >>
    /\ UNCHANGED << world, remapFile, remappingRules, pc, loc, epg >>

\* The loop of parseM3U ends (no line is left) and parseM3U returns its
\* result (lines 242-252); loadAndTransform resumes after the await.
ParseResult(data, epgUrl) ==
    [genres |-> data.genres, channels |-> data.channels, epgUrl |-> epgUrl]

ParseEnd(r) ==
    /\ pc[r] = "scan"
    /\ Scheduled(r)
    /\ prs[r].ahead = << >>
    /\ Again(r) => Rest(r) = << >>
    /\ prs' = [prs EXCEPT ![r].result =
                  Some(ParseResult(stremioData, prs[r].epgUrl)),
                          ![r].currentChannel = None,
                          ![r].ended = FALSE]
    /\ log' = [log EXCEPT ![r].meta = None,
                           ![r].between = << >>,
                           ![r].dropped = IF log[r].meta # None THEN @ + 1 ELSE @]
    /\ pc' = [pc EXCEPT ![r] = "fold"]
    /\ UNCHANGED << world, budget, remapFile, remappingRules, stremioData,
                    heap, loc, epg >>

\* A fold that forgets the test on the id.
FoldChannelsAll(allChannels, channels, hp) == allChannels \o channels

\* result.channels.forEach(...) of lines 269-273.
RECURSIVE FoldChannels(_, _, _)
FoldChannels(allChannels, channels, hp) ==
    IF channels = << >> THEN allChannels
    ELSE LET ch == Head(channels)
             known == \E j \in 1..Len(allChannels) :
                         hp[allChannels[j]].id = hp[ch].id
         IN FoldChannels(IF known THEN allChannels ELSE Append(allChannels, ch),
                         Tail(channels), hp)

\* A fold that forgets the test on the guide URL.
FoldResultKeepsEveryUrl(l, res, hp) ==
    [l EXCEPT !.allChannels = FoldChannels(@, res.channels, hp),
              !.allGenres = SetAddAll(@, res.genres),
              !.allEpgUrls = IF res.epgUrl # None THEN Append(@, res.epgUrl[1])
                             ELSE @,
              !.docIdx = @ + 1]

\* Lines 269-279 on the locals l and the result res of parseM3U.
FoldResult(l, res, hp) ==
    [l EXCEPT !.allChannels = FoldChannels(@, res.channels, hp),
              !.allGenres = SetAddAll(@, res.genres),
              !.allEpgUrls = IF res.epgUrl # None
                                /\ \A j \in 1..Len(@) : @[j] # res.epgUrl[1]
                             THEN Append(@, res.epgUrl[1])
                             ELSE @,
              !.docIdx = @ + 1]

\* The rest of one turn of the loop of loadAndTransform, and, after the last
\* playlist, lines 282-292.
Fold(r) ==
    /\ pc[r] = "fold"
    /\ Scheduled(r)
    /\ LET l == FoldResult(loc[r], prs[r].result[1], heap)
       IN IF l.docIdx < l.n
          THEN /\ pc' = [pc EXCEPT ![r] = "fetch"]
               /\ loc' = [loc EXCEPT ![r] = l]
               /\ epg' = epg
               /\ log' = log
          ELSE Finish(r, l)
    /\ prs' = [prs EXCEPT ![r] = NoParse]
    /\ UNCHANGED << world, budget, remapFile, remappingRules, stremioData,
                    heap >>

\* ------------------------------------------------- a run, uninterrupted
\*
\* The same code run from a playlist's first line to its last and from a
\* run's first playlist to its last, with nothing in between.

\* The for loop of parseM3U from line i on (lines 201-240), cur being
\* currentChannel.
RECURSIVE ScanAll(_, _, _, _, _, _)
ScanAll(lines, i, cur, rules, data, hp) ==
    IF i > Len(lines) THEN [data |-> data, hp |-> hp]
    ELSE LET line == lines[i]
         IN CASE line.cls = "EXTINF" ->
                   LET opts == ParseVLCOpts(lines, i + 1)
                   IN ScanAll(lines, ResumeAt(opts.nextIndex),
                              Some(CurrentChannel(line, opts.headers)),
                              rules, data, hp)
              [] line.cls = "URL" ->
                   LET s == ScanUrl([NoParse EXCEPT !.currentChannel = cur],
                                    line, rules, data, hp)
                   IN ScanAll(lines, i + 1, s.p.currentChannel, rules,
                              s.data, s.hp)
              [] OTHER -> ScanAll(lines, i + 1, cur, rules, data, hp)

\* parseM3U(content): its result and the channel objects after it.
ParseM3U(lines, rules, data, hp) ==
    LET s == ScanAll(lines, 1, None, rules, ParseStart(data), hp)
    IN [result |-> ParseResult(s.data, UrlTvg(lines[1].attrs)),
        data |-> s.data, hp |-> s.hp]

\* The loop of loadAndTransform from playlist k on, and the returned catalog
\* with its channel objects.
RECURSIVE TransformAll(_, _, _, _, _, _)
TransformAll(docs, k, l, rules, data, hp) ==
    IF k > Len(docs) THEN CatalogValue(Catalog(l), hp)
    ELSE LET p == ParseM3U(docs[k], rules, data, hp)
         IN TransformAll(docs, k + 1, FoldResult(l, p.result, p.hp), rules,
                         p.data, p.hp)

\* loadAndTransform on a new transformer, the remap file being file and the
\* playlists docs, when the guide-data collaborator resolves.
LoadAndTransform(docs, file) ==
    TransformAll(docs, 1, NoLocals, LoadRemappingRules(EmptyMap, file),
                 [genres |-> << >>, channels |-> << >>], << >>)

\* EPGManager.initializeEPG resolves: the catalog is returned.
EpgResolve(r) ==
    /\ pc[r] = "awaitEPG"
    /\ Scheduled(r)
    /\ epg' = [epg EXCEPT ![r] = "resolved"]
    /\ pc' = [pc EXCEPT ![r] = "done"]
    /\ loc' = [loc EXCEPT ![r].ret = Some(Catalog(loc[r]))]
    /\ log' = [log EXCEPT ![r].out = Some(CatalogValue(Catalog(loc[r]), heap))]
    /\ UNCHANGED << world, budget, remapFile, remappingRules, stremioData,
                    heap, prs >>

\* EPGManager.initializeEPG rejects: the catch block rethrows.
EpgReject(r) ==
    /\ pc[r] = "awaitEPG"
    /\ Scheduled(r)
    /\ epg' = [epg EXCEPT ![r] = "rejected"]
    /\ pc' = [pc EXCEPT ![r] = "failed"]
    /\ loc' = [loc EXCEPT ![r].error = "epg"]
    /\ UNCHANGED << world, budget, remapFile, remappingRules, stremioData,
                    heap, prs, log >>

Next ==
    \/ WriteRemapFile
    \/ \E r \in RunIds : StartRun(r)
    \/ \E r \in RunIds : LoadRules(r)
    \/ \E r \in RunIds : ReadExternalOk(r)
    \/ \E r \in RunIds : ReadExternalFail(r)
    \/ \E r \in RunIds : FetchOk(r)
    \/ \E r \in RunIds : FetchFail(r)
    \/ \E r \in RunIds : ScanLine(r)
    \/ \E r \in RunIds : ParseEnd(r)
    \/ \E r \in RunIds : Fold(r)
    \/ \E r \in RunIds : EpgResolve(r)
    \/ \E r \in RunIds : EpgReject(r)

Spec == Init /\ [][Next]_vars

\* loadAndTransform is called while earlier calls are at an await: nothing
\* is reset, the call stops at its first await.
StartOverlapped(r) ==
    /\ pc[r] = "idle"
    /\ Scheduled(r)
    /\ \A q \in RunIds : q < r => pc[q] # "idle"
    /\ pc' = [pc EXCEPT ![r] = "loadRules"]
    /\ UNCHANGED << world, budget, remapFile, remappingRules, stremioData,
                    heap, loc, prs, epg, log >>

\* The calls of loadAndTransform overlap and the remap file stays as it is.
NextOverlap ==
    \/ \E r \in RunIds : StartOverlapped(r)
    \/ \E r \in RunIds : LoadRules(r)
    \/ \E r \in RunIds : ReadExternalOk(r)
    \/ \E r \in RunIds : ReadExternalFail(r)
    \/ \E r \in RunIds : FetchOk(r)
    \/ \E r \in RunIds : FetchFail(r)
    \/ \E r \in RunIds : ScanLine(r)
    \/ \E r \in RunIds : ParseEnd(r)
    \/ \E r \in RunIds : Fold(r)
    \/ \E r \in RunIds : EpgResolve(r)
    \/ \E r \in RunIds : EpgReject(r)

InitOverlap == Start(OverlapWorlds)

SpecOverlap == InitOverlap /\ [][NextOverlap]_vars

\* The same transformer under a caller that refreshes unchanged playlists.
InitRerun == Start(RerunWorlds)

SpecRerun == InitRerun /\ [][Next]_vars

\* The same transformer given playlists with option lines.
InitOpts == Start(OptWorlds)

SpecOpts == InitOpts /\ [][Next]_vars

\* The same transformer given hand-edited inputs.
InitEdge == Start(EdgeWorlds)

SpecEdge == InitEdge /\ [][Next]_vars

\* ------------------------------------------------------------ properties

Done(r) == pc[r] = "done"
Ret(r) == loc[r].ret[1]

\* What the properties say an entry's identity is: the lower-cased explicit
\* tvg-id if the entry has one, else the lower-cased trimmed display name,
\* replaced once by the rule for it if there is one.
EntryKey(channel) ==
    IF "id" \in DOMAIN channel.tvg /\ channel.tvg.id # << >>
    THEN ToLowerCase(channel.tvg.id)
    ELSE ToLowerCase(Trim(channel.name))

EntryIdentity(channel, rules) ==
    IF EntryKey(channel) \in DOMAIN rules
    THEN rules[EntryKey(channel)]
    ELSE EntryKey(channel)

\* The {url, raw name} pairs of the entries of es (a history of entries)
\* that are of playlist doc (0: of any) and resolve to identity id, in order.
RECURSIVE StreamsFor(_, _, _, _)
StreamsFor(es, doc, id, rules) ==
    IF es = << >> THEN << >>
    ELSE LET e == Head(es)
             rest == StreamsFor(Tail(es), doc, id, rules)
         IN IF (doc = 0 \/ e.doc = doc) /\ EntryIdentity(e.channel, rules) = id
            THEN << [url |-> e.channel.url, name |-> e.channel.name] >> \o rest
            ELSE rest

\* The positions in a list of channel references of the channels with id.
Holding(channels, id) == {j \in 1..Len(channels) : heap[channels[j]].id = id}

\* C1: no two channels of the catalog a run returns have the same identity.
C1_UniqueIdentity ==
    \A r \in RunIds :
        Done(r) =>
            \A i, j \in 1..Len(Ret(r).channels) :
                i # j => heap[Ret(r).channels[i]].id # heap[Ret(r).channels[j]].id

\* A returned catalog built from two playlists that both hold an entry of
\* the same identity.
C1_Witness ==
    \E r \in RunIds :
        /\ Done(r)
        /\ Len(Ret(r).channels) >= 1
        /\ \E i, j \in 1..Len(log[r].emitted) :
              /\ log[r].emitted[i].doc # log[r].emitted[j].doc
              /\ EntryIdentity(log[r].emitted[i].channel, remappingRules)
                    = EntryIdentity(log[r].emitted[j].channel, remappingRules)

\* C2: in a run over one playlist, the entries that resolve to one identity
\* make exactly one channel of the catalog, whose streams are the {url, raw
\* name} pairs of those entries in the order of the playlist.
C2_OneChannelPerIdentity ==
    \A r \in RunIds :
        Done(r) /\ loc[r].n = 1 =>
            \A k \in 1..Len(log[r].emitted) :
                LET id == EntryIdentity(log[r].emitted[k].channel, remappingRules)
                    at == Holding(Ret(r).channels, IdPrefix \o id)
                IN /\ Cardinality(at) = 1
                   /\ \A j \in at :
                         heap[Ret(r).channels[j]].urls
                            = StreamsFor(log[r].emitted, 1, id, remappingRules)

\* A run over one playlist that returned, with two entries of the same
\* identity, one by its own identity and one through a remap rule.
C2_Witness ==
    \E r \in RunIds :
        /\ Done(r) /\ loc[r].n = 1
        /\ \E i, j \in 1..Len(log[r].emitted) :
              LET a == log[r].emitted[i].channel
                  b == log[r].emitted[j].channel
              IN /\ i < j
                 /\ EntryKey(a) \notin DOMAIN remappingRules
                 /\ EntryKey(b) \in DOMAIN remappingRules
                 /\ EntryIdentity(a, remappingRules) = EntryIdentity(b, remappingRules)

\* What the properties say the channel-level fields of an entry are.
EntryDisplayName(channel) ==
    IF "name" \in DOMAIN channel.tvg /\ channel.tvg.name # << >>
    THEN channel.tvg.name
    ELSE channel.name

\* The first entry of es that resolves to identity id (es holds one).
FirstFor(es, id, rules) ==
    LET at == {k \in 1..Len(es) : EntryIdentity(es[k].channel, rules) = id}
    IN es[CHOOSE k \in at : \A m \in at : k <= m].channel

\* C3: when entries of two playlists of one run resolve to the same identity,
\* the catalog holds one channel for it, with the channel-level fields of the
\* earlier playlist's entry and the streams of the entries of both playlists,
\* in playlist order.
C3_MergesAcrossPlaylists ==
    \A r \in RunIds :
        Done(r) =>
            \A i, j \in 1..Len(log[r].emitted) :
                LET a == log[r].emitted[i]
                    b == log[r].emitted[j]
                    id == EntryIdentity(a.channel, remappingRules)
                    at == Holding(Ret(r).channels, IdPrefix \o id)
                    first == FirstFor(log[r].emitted, id, remappingRules)
                IN a.doc < b.doc /\ EntryIdentity(b.channel, remappingRules) = id =>
                      /\ Cardinality(at) = 1
                      /\ \A k \in at :
                            LET c == heap[Ret(r).channels[k]]
                            IN /\ c.name = EntryDisplayName(first)
                               /\ c.genre = << first.group >>
                               /\ c.urls = StreamsFor(log[r].emitted, 0, id,
                                                      remappingRules)

\* The rules a remap file holds.
RulesOf(file) == LoadRemappingRules(EmptyMap, file)

\* C4: from the moment a run has loaded its rules, the rule set in effect is
\* exactly the rules of the remap file as the run found it (none when the
\* file was absent or unreadable).
C4_RulesAreTheFile ==
    \A r \in RunIds :
        log[r].file # None => remappingRules = RulesOf(log[r].file[1])

\* C5: while a playlist is parsed, every entry of it has a channel whose
\* identity is the prefix plus the entry's identity (the lower-cased tvg-id,
\* else the lower-cased trimmed name, replaced once by its rule), and every
\* channel holds the streams of exactly the entries of that identity.
C5_IdentityOfEntry ==
    \A r \in RunIds :
        pc[r] \in {"scan", "fold"} =>
            LET doc == loc[r].docIdx + 1
                es == log[r].emitted
                chans == stremioData.channels
            IN /\ \A k \in 1..Len(es) :
                     es[k].doc = doc =>
                        Holding(chans, IdPrefix \o
                                   EntryIdentity(es[k].channel, remappingRules)) # {}
               /\ \A j \in 1..Len(chans) :
                     LET c == heap[chans[j]]
                     IN /\ SubSeq(c.id, 1, Len(IdPrefix)) = IdPrefix
                        /\ c.urls = StreamsFor(es, doc,
                                        SubSeq(c.id, Len(IdPrefix) + 1, Len(c.id)),
                                        remappingRules)

\* A playlist being parsed that held an entry whose tvg-id is in upper case,
\* has a rule, and whose rule leads to an identity that has a rule too.
C5_Witness ==
    \E r \in RunIds :
        /\ pc[r] = "scan"
        /\ \E k \in 1..Len(log[r].emitted) :
              LET ch == log[r].emitted[k].channel
              IN /\ log[r].emitted[k].doc = loc[r].docIdx + 1
                 /\ "id" \in DOMAIN ch.tvg
                 /\ ch.tvg.id # EntryKey(ch)
                 /\ EntryKey(ch) \in DOMAIN remappingRules
                 /\ remappingRules[EntryKey(ch)] \in DOMAIN remappingRules

\* C6: a run returns a catalog only when every one of its playlists was
\* fetched and parsed; a run whose source list or playlist could not be read
\* has thrown and returned nothing.
C6_AllOrNothing ==
    \A r \in RunIds :
        /\ loc[r].ret # None =>
              /\ pc[r] = "done"
              /\ log[r].fetched = loc[r].n
              /\ loc[r].docIdx = loc[r].n
        /\ loc[r].error \in {"source", "fetch"} =>
              /\ pc[r] = "failed"
              /\ loc[r].ret = None

\* A run that threw on its second playlist after it had folded a channel of
\* its first one.
C6_Witness ==
    \E r \in RunIds :
        /\ pc[r] = "failed"
        /\ loc[r].error = "fetch"
        /\ loc[r].docIdx >= 1
        /\ Len(loc[r].allChannels) >= 1
        /\ loc[r].ret = None

\* C7: the run does not wait on the guide-data collaborator: a collaborator
\* that fails has not kept the run from returning its catalog.
C7_ReturnsWithoutWaiting ==
    \A r \in RunIds : epg[r] = "rejected" => loc[r].ret # None

\* C8: the genres of every returned catalog hold the sentinel genre.
C8_SentinelGenre ==
    \A r \in RunIds :
        Done(r) => \E j \in 1..Len(Ret(r).genres) : Ret(r).genres[j] = AltriCanali

\* C9: a step of parseM3U that hands on an entry whose identity already has
\* a channel appends the entry's {url, raw name} to that channel's streams
\* and changes nothing else: not the other fields of the channel, not the
\* other channels, not the list of channels, not the genres.
C9_MergeOnlyAppends ==
    [][ \A r \in RunIds :
          Len(log'[r].emitted) = Len(log[r].emitted) + 1 =>
             LET ch == log'[r].emitted[Len(log'[r].emitted)].channel
                 id == IdPrefix \o EntryIdentity(ch, remappingRules)
                 at == Holding(stremioData.channels, id)
                 refs == {stremioData.channels[j] : j \in at}
             IN at # {} =>
                   /\ stremioData' = stremioData
                   /\ remappingRules' = remappingRules
                   /\ Cardinality(refs) = 1
                   /\ Len(heap') = Len(heap)
                   /\ \A k \in 1..Len(heap) :
                         heap'[k] = IF k \in refs
                                    THEN [heap[k] EXCEPT !.urls =
                                            Append(@, [url |-> ch.url, name |-> ch.name])]
                                    ELSE heap[k]
      ]_vars

\* A playlist being parsed in which an entry was merged into a channel
\* created by an entry of another group and another name.
C9_Witness ==
    \E r \in RunIds :
        /\ pc[r] = "scan"
        /\ \E j \in 1..Len(stremioData.channels) :
              LET c == heap[stremioData.channels[j]]
              IN /\ Len(c.urls) >= 2
                 /\ \E k \in 1..Len(log[r].emitted) :
                       LET ch == log[r].emitted[k].channel
                       IN /\ log[r].emitted[k].doc = loc[r].docIdx + 1
                          /\ c.urls[Len(c.urls)] = [url |-> ch.url, name |-> ch.name]
                          /\ << ch.group >> # c.genre
                          /\ EntryDisplayName(ch) # c.name

\* C10: the entries handed on are exactly the pairs of a metadata line and
\* the first URL line after it with no metadata line in between, in order;
\* every stream of a channel comes from such a pair of the playlist.
C10_EntriesAreCompletePairs ==
    \A r \in RunIds :
        /\ Len(log[r].emitted) = Len(log[r].expect)
        /\ \A k \in 1..Len(log[r].emitted) :
              /\ log[r].emitted[k].doc = log[r].expect[k].doc
              /\ log[r].emitted[k].channel.name = log[r].expect[k].name
              /\ log[r].emitted[k].channel.url = log[r].expect[k].url
        /\ pc[r] \in {"scan", "fold"} =>
              \A j \in 1..Len(stremioData.channels) :
                 LET c == heap[stremioData.channels[j]]
                 IN \A m \in 1..Len(c.urls) :
                       \E k \in 1..Len(log[r].expect) :
                          /\ log[r].expect[k].doc = loc[r].docIdx + 1
                          /\ log[r].expect[k].name = c.urls[m].name
                          /\ log[r].expect[k].url = c.urls[m].url

\* A playlist in which a metadata line was dropped for want of a URL line, a
\* URL line was passed with no metadata pending, and an entry was handed on
\* whose option lines had been consumed by the lookahead.
C10_Witness ==
    \E r \in RunIds :
        /\ log[r].dropped >= 1
        /\ log[r].ignored >= 1
        /\ \E k \in 1..Len(log[r].emitted) :
              log[r].emitted[k].channel.headers # EmptyMap

\* What the properties say the guide URL of a playlist is: the value of the
\* first url-tvg="..." pair of its first line that has a value.
HeaderGuide(pairs) ==
    LET at == {j \in 1..Len(pairs) : pairs[j][2] # << >>}
    IN IF at = {} THEN None
       ELSE Some(pairs[CHOOSE j \in at : \A k \in at : j <= k][2])

\* The distinct guide URLs of the playlists, in the order of the first
\* playlist that yields each.
RECURSIVE DistinctGuides(_)
DistinctGuides(heads) ==
    IF heads = << >> THEN << >>
    ELSE LET before == DistinctGuides(SubSeq(heads, 1, Len(heads) - 1))
             g == HeaderGuide(heads[Len(heads)])
         IN IF g = None \/ \E j \in 1..Len(before) : before[j] = g[1]
            THEN before
            ELSE Append(before, g[1])

\* The texts us (at least one) with a comma between each two.
RECURSIVE CommaJoined(_)
CommaJoined(us) ==
    IF Len(us) = 1 THEN us[1]
    ELSE CommaJoined(SubSeq(us, 1, Len(us) - 1)) \o << "," >> \o us[Len(us)]

\* C11: the guide URL of a returned catalog is the comma-joined list of the
\* distinct guide URLs of the headers of the run's playlists, in the order
\* of the first playlist that yields each; it is absent when no playlist
\* yields one.
C11_GuideUrlIsTheUnion ==
    \A r \in RunIds :
        Done(r) =>
            Ret(r).epgUrl = IF DistinctGuides(log[r].heads) = << >> THEN None
                            ELSE Some(CommaJoined(DistinctGuides(log[r].heads)))

\* A returned catalog of two playlists whose headers yield the same guide URL.
C11_Witness ==
    \E r \in RunIds :
        /\ Done(r)
        /\ Len(log[r].heads) = 2
        /\ HeaderGuide(log[r].heads[1]) # None
        /\ HeaderGuide(log[r].heads[1]) = HeaderGuide(log[r].heads[2])
        /\ Ret(r).epgUrl = HeaderGuide(log[r].heads[1])

\* C12: a run that is given the playlists of the run before it, with the
\* remap file holding what it held then, returns a catalog identical to the
\* one that run returned: the same genres in the same order, the same
\* channels in the same order with the same streams, the same guide URL.
C12_SameSourcesSameCatalog ==
    \A r \in RunIds :
        (/\ r > 1
         /\ Done(r)
         /\ Again(r)
         /\ log[r].docs = log[r - 1].docs
         /\ log[r].file = log[r - 1].file)
        => log[r].out = log[r - 1].out

\* A second run over the same playlist and the same rules that returned a
\* catalog with a guide URL and a remapped channel of two merged streams.
C12_Witness ==
    /\ world.rerun
    /\ Done(2)
    /\ Again(2)
    /\ log[2].docs = log[1].docs
    /\ log[2].file = log[1].file
    /\ log[2].out[1].epgUrl # None
    /\ \E j \in 1..Len(log[2].out[1].channels) :
          LET c == log[2].out[1].channels[j]
          IN /\ Len(c.urls) = 2
             /\ c.id = IdPrefix \o << "c" >>

\* C13: at every moment of a run every channel, in the accumulator of the
\* playlist being parsed, in the channels gathered so far and in the
\* returned catalog, has at least one stream.
C13_StreamsNeverEmpty ==
    /\ \A j \in 1..Len(stremioData.channels) :
          Len(heap[stremioData.channels[j]].urls) >= 1
    /\ \A r \in RunIds :
          /\ \A j \in 1..Len(loc[r].allChannels) :
                Len(heap[loc[r].allChannels[j]].urls) >= 1
          /\ Done(r) =>
                \A j \in 1..Len(Ret(r).channels) :
                   Len(heap[Ret(r).channels[j]].urls) >= 1

\* A returned catalog with a channel, while the accumulator holds one too.
C13_Witness ==
    \E r \in RunIds :
        /\ Done(r)
        /\ Len(Ret(r).channels) >= 1
        /\ Len(stremioData.channels) >= 1

\* C14: the channel list parseM3U returns for a playlist holds each channel
\* once: as many elements as there are distinct identities among the
\* entries of the playlist, no two of them with the same identity.
C14_ParsedListHoldsEachOnce ==
    \A r \in RunIds :
        pc[r] = "fold" =>
            LET chans == prs[r].result[1].channels
                doc == loc[r].docIdx + 1
                ids == {EntryIdentity(log[r].emitted[k].channel, remappingRules) :
                           k \in {m \in 1..Len(log[r].emitted) :
                                     log[r].emitted[m].doc = doc}}
            IN /\ Len(chans) = Cardinality(ids)
               /\ \A i, j \in 1..Len(chans) :
                     i # j => heap[chans[i]].id # heap[chans[j]].id

\* The key the properties say a name="value" pair is stored under: the name
\* with the tvg- prefix stripped.
KeyOf(name) ==
    IF name \in {"tvg-id", "tvg-name", "tvg-logo"}
    THEN CHOOSE k \in {"id", "name", "logo"} : name = "tvg-" \o k
    ELSE name

\* C15: for every name="value" pair of a metadata line, the entry made from
\* the line holds under the stripped name the complete text between the
\* quotes, also when that text contains '='.
C15_AttributeValuesAreComplete ==
    \A r \in RunIds :
        \A k \in 1..Len(log[r].emitted) :
            k <= Len(log[r].expect) =>
               \A j \in 1..Len(log[r].expect[k].attrs) :
                  LET pair == log[r].expect[k].attrs[j]
                      tvg == log[r].emitted[k].channel.tvg
                  IN pair[2] # << >> =>
                        /\ KeyOf(pair[1]) \in DOMAIN tvg
                        /\ tvg[KeyOf(pair[1])] = pair[2]

\* The entries of es before position k that are of the playlist of es[k] and
\* resolve to the identity of es[k]: the first of them created its channel.
EarlierSame(es, k, rules) ==
    {i \in 1..(k - 1) :
        /\ es[i].doc = es[k].doc
        /\ EntryIdentity(es[i].channel, rules) = EntryIdentity(es[k].channel, rules)}

\* C16: the conflict warning is logged for an entry exactly when a rule
\* applies to it, a channel of the resulting identity exists already, and
\* that channel was created by an entry of another pre-remap identity; the
\* entry is merged into the channel all the same.
C16_ConflictWarning ==
    \A r \in RunIds :
        \A k \in 1..Len(log[r].emitted) :
            LET es == log[r].emitted
                e == es[k].channel
                earlier == EarlierSame(es, k, remappingRules)
                creator == es[CHOOSE i \in earlier : \A m \in earlier : i <= m].channel
            IN /\ log[r].conflicts[k]
                    <=> (/\ EntryKey(e) \in DOMAIN remappingRules
                         /\ earlier # {}
                         /\ EntryKey(creator) # EntryKey(e))
               /\ (pc[r] = "scan" /\ es[k].doc = loc[r].docIdx + 1 /\ earlier # {}) =>
                     \E j \in 1..Len(stremioData.channels) :
                        LET c == heap[stremioData.channels[j]]
                        IN /\ c.id = IdPrefix \o EntryIdentity(e, remappingRules)
                           /\ \E m \in 1..Len(c.urls) :
                                 c.urls[m] = [url |-> e.url, name |-> e.name]

\* What the properties say a line of the remap file holds: nothing for a
\* blank line, a comment, a line without '=' or with an empty side; else
\* the trimmed lower-cased texts before and after its '='.  A line with
\* more than one '=' is cut at the first one, or, when strict, holds nothing.
ReadRule(rawLine, strict) ==
    LET t == Trim(rawLine)
        eqs == {j \in 1..Len(t) : t[j] = "="}
        first == CHOOSE j \in eqs : \A k \in eqs : j <= k
        key == ToLowerCase(Trim(SubSeq(t, 1, first - 1)))
        val == ToLowerCase(Trim(SubSeq(t, first + 1, Len(t))))
    IN IF t = << >> \/ Head(t) = "#" \/ eqs = {} THEN None
       ELSE IF strict /\ Cardinality(eqs) > 1 THEN None
       ELSE IF key = << >> \/ val = << >> THEN None
       ELSE Some(<< key, val >>)

\* The rules of a text, a later line for a key replacing an earlier one.
RECURSIVE ReadRules(_, _)
ReadRules(text, strict) ==
    IF text = << >> THEN EmptyMap
    ELSE LET before == ReadRules(SubSeq(text, 1, Len(text) - 1), strict)
             rule == ReadRule(text[Len(text)], strict)
         IN IF rule = None THEN before
            ELSE [x \in (DOMAIN before) \cup {rule[1][1]} |->
                    IF x = rule[1][1] THEN rule[1][2] ELSE before[x]]

\* C17: after the first load of a transformer (the rule set was empty), the
\* rule set holds exactly the rules of the well-formed lines of the text,
\* whichever way a line with more than one '=' is read.
C17_RulesOfTheText ==
    (/\ log[1].file # None
     /\ \A q \in RunIds \ {1} : pc[q] = "idle"
     /\ log[1].file[1].err = "")
    => \/ remappingRules = ReadRules(log[1].file[1].text, FALSE)
       \/ remappingRules = ReadRules(log[1].file[1].text, TRUE)

\* What the properties call an option line: a line that begins with
\* #EXTVLCOPT: (a line with blanks before the marker does not begin with it).
IsOptionLine(line) == line.cls = "EXTVLCOPT" /\ ~line.indent

AllOptionLines(lines) == \A j \in 1..Len(lines) : IsOptionLine(lines[j])

\* The headers the properties say option lines give an entry: User-Agent,
\* the value of the last http-user-agent option, if there is one.
UserAgentOf(opts) ==
    LET at == {j \in 1..Len(opts) : opts[j].attrs[1][1] = "http-user-agent"}
    IN IF at = {} THEN EmptyMap
       ELSE [h \in {"User-Agent"} |->
               opts[CHOOSE j \in at : \A k \in at : k <= j].attrs[1][2]]

\* C18: when a metadata line is followed at once by k >= 0 option lines and
\* then a URL line, the lookahead consumes the k option lines and the scan
\* resumes at the line after them; the URL line becomes the URL of the
\* entry, and the entry's headers are the User-Agent of the last
\* http-user-agent option among the k lines, or none.
C18_OptionLookahead ==
    \A r \in RunIds :
        /\ \A k \in 1..Len(log[r].expect) :
              AllOptionLines(log[r].expect[k].between) =>
                 /\ k <= Len(log[r].emitted)
                 /\ log[r].emitted[k].channel.url = log[r].expect[k].url
                 /\ log[r].emitted[k].channel.headers
                       = UserAgentOf(log[r].expect[k].between)
        /\ (pc[r] = "scan" /\ log[r].meta # None
                           /\ AllOptionLines(log[r].between)) =>
              /\ prs[r].currentChannel # None
              /\ prs[r].currentChannel[1].headers = UserAgentOf(log[r].between)
              /\ prs[r].ahead # << >> => ~IsOptionLine(prs[r].ahead[1])

\* An entry whose metadata line was followed by two user-agent options and
\* an option the parser does not know, then its URL line.
C18_Witness ==
    \E r \in RunIds :
        \E k \in 1..Len(log[r].emitted) :
            LET opts == log[r].expect[k].between
            IN /\ Len(opts) = 3
               /\ AllOptionLines(opts)
               /\ opts[1].attrs[1][1] = "http-user-agent"
               /\ opts[3].attrs[1][1] = "http-user-agent"
               /\ opts[1] # opts[3]
               /\ log[r].emitted[k].channel.headers
                     = [h \in {"User-Agent"} |-> opts[3].attrs[1][2]]

\* C19: every genre of a returned catalog other than the sentinel genre is
\* the genre of at least one channel of the catalog.
C19_NoGenreWithoutChannel ==
    \A r \in RunIds :
        Done(r) =>
            \A g \in 1..Len(Ret(r).genres) :
                Ret(r).genres[g] # AltriCanali =>
                    \E j \in 1..Len(Ret(r).channels) :
                        \E m \in 1..Len(heap[Ret(r).channels[j]].genre) :
                            heap[Ret(r).channels[j]].genre[m] = Ret(r).genres[g]

\* C20: when calls of loadAndTransform overlap on one transformer and the
\* remap file stays as it is, every call returns the catalog it would
\* return if it ran alone, and a returned catalog stays as it was returned.
C20_OverlappingRuns ==
    \A r \in RunIds :
        Done(r) =>
            /\ log[r].out[1] = LoadAndTransform(log[r].docs, log[r].file[1])
            /\ CatalogValue(Ret(r), heap) = log[r].out[1]

\* Two calls that both returned a channel, the later call having parsed its
\* playlist before the earlier one parsed its own.
C20_Witness ==
    /\ Done(1) /\ Done(2)
    /\ Len(Ret(1).channels) >= 1
    /\ Len(Ret(2).channels) >= 1
    /\ Ret(2).channels[1] < Ret(1).channels[1]
    /\ remappingRules # EmptyMap

====
